---- MODULE Spec2Model ----
(***************************************************************************)
(* Frame-synthesis and streaming pipeline of the media generation tools.   *)
(* One behaviour is one run of one generator: the inputs are read, the     *)
(* configuration is validated, the ffmpeg child is spawned, frames are     *)
(* synthesized and written to its stdin, stdin is closed, the child is     *)
(* awaited and the outcome is reported to the caller.                      *)
(*                                                                         *)
(* Generators fall in three families:                                      *)
(*   run    abstract_flow, bouncing_ball, starfield: run(...) raises, the  *)
(*          callers cli() and ui.go() report                               *)
(*   main   circle_pulse, spiral_black_hole: main() prompts, prints and    *)
(*          returns                                                        *)
(*   thread gradient_cycle, color_cycle_4k: start_generation validates and *)
(*          starts generate_video on a worker thread                       *)
(* Durations are counted in half seconds (minutes = 0, seconds = halves/2).*)
(* The value -1 stands for Python's None (returncode, no status named).    *)
(***************************************************************************)
EXTENDS Integers, Sequences, FiniteSets, TLC

\* ---------------------------------------------------------------- bounds
MaxHalves == 2      \* longest duration drawn, in half seconds
MaxDup == 3         \* largest duplication factor drawn
MaxStatus == 1      \* largest encoder exit status drawn
MaxStall == 3       \* iterations followed of a frame loop that makes no progress
MaxSchedT == 11     \* largest target_frames drawn for the frame schedule
MaxSchedDup == 4    \* largest duplication factor drawn for the frame schedule
MaxBallW == 5       \* largest frame width drawn for the bouncing ball
MaxBallV == 6       \* largest ball velocity component, in pixels per second
MaxStarW == 10      \* largest frame width drawn for the star field
MaxGradHalves == 24 \* longest gradient_cycle video, in half seconds
MaxJobs == 2        \* files added to the batch list
MaxStarts == 2      \* clicks on Start that find a job list
MaxProgress == 1    \* progress lines reported per job
MaxWorkers == 3     \* most workers started from one window
MaxIgnored == 2     \* most clicks counted on a disabled button
MaxNodes == 3       \* most nodes put on the workflow canvas
MaxDrags == 1       \* most drags of a node followed
HsvDen == 6         \* h, s and v are drawn as multiples of 1 / HsvDen
SubSteps == 4       \* float64 values told apart between two neighbouring float32 values

\* ------------------------------------------------------ program constants
QueueMaxsize == 0   \* queue.Queue(): no upper limit on the queue size
MaxWidth == 3840
MaxHeight == 2160
DefaultFps == 30
BufSize == 4096
NodeW == 140        \* Node.w, width of a node rectangle
NodeH == 50         \* Node.h, height of a node rectangle
NodeX0 == 80        \* x and y of the first node put on the canvas
NodeStep == 20      \* offset of each further node

\* ------------------------------------------------------------- inputs
RunGens == {"abstract_flow", "bouncing_ball", "starfield"}
MainGens == {"circle_pulse", "spiral_black_hole"}
ThreadGens == {"gradient_cycle", "color_cycle_4k"}
DupGens == RunGens \cup MainGens

GenEntries ==
    (RunGens \X {"cli", "gui"}) \cup (MainGens \X {"cli"}) \cup (ThreadGens \X {"gui"})

Widths == {-1, 2, 1200, MaxWidth, MaxWidth + 1, 2 * MaxWidth}
Heights == {-1, 1, MaxHeight, MaxHeight + 1}
FpsValues == {-1, 0, 1, 2, DefaultFps}
Dups == -1 .. MaxDup
Halves == -1 .. MaxHalves
PresetNames == {"4K UHD (3840x2160)", "720p (1280x720)", "Custom"}
SpawnEnv == {"ok", "missing", "noexec"}

PRESETS(p) ==
    IF p = "4K UHD (3840x2160)" THEN <<3840, 2160>> ELSE <<1280, 720>>

Family(g) ==
    IF g \in RunGens THEN "run" ELSE IF g \in MainGens THEN "main" ELSE "thread"

Min(a, b) == IF a <= b THEN a ELSE b

\* ------------------------------------------------------------- state
VARIABLES
    gen, entry, cfg, ffmpeg,
    pc, verdict, exc,
    target_frames, frames_written, logical_idx, repeat, i,
    spawns, cmd, enc, encStatus, buffered, closes, awaited, returncode,
    writes, synths, faults,
    frame, sent,
    report, named, exitCode, button,
    pipeline, ball, stars, grad, hsv, batch, win, wf

\* the state of the programs other than the generators
sideVars == <<pipeline, ball, stars, grad, hsv, batch, win, wf>>
inputVars == <<gen, entry, cfg, ffmpeg, sideVars>>
loopVars == <<target_frames, frames_written, logical_idx, repeat, i>>
procVars == <<spawns, cmd, enc, encStatus, buffered, closes, awaited, returncode>>
histVars == <<writes, synths, faults>>
frameVars == <<frame, sent>>
outVars == <<report, named, exitCode, button>>
vars == <<gen, entry, cfg, ffmpeg, pc, verdict, exc,
          target_frames, frames_written, logical_idx, repeat, i,
          spawns, cmd, enc, encStatus, buffered, closes, awaited, returncode,
          writes, synths, faults, frame, sent,
          report, named, exitCode, button, sideVars>>
genVars == <<gen, entry, cfg, ffmpeg, pc, verdict, exc,
             loopVars, procVars, histVars, frameVars, outVars>>

\* ---------------------------------------------------- pipeline paths
\* A path is the sequence of its components between "/" separators; a leading
\* empty component is the root of an absolute path.
PipePaths == {<<"a.mp4">>, <<"media", "a.mp4">>, <<"media", "media", "a.mp4">>,
              <<"", "a.mp4">>, <<"b.mp4">>, <<"media", "b.mp4">>}

\* outp.startswith("media/")
StartsWithMedia(p) == Len(p) >= 2 /\ p[1] = "media"

\* os.path.join("media", outp): an absolute outp discards the prefix
JoinMedia(p) == IF p[1] = "" THEN p ELSE <<"media">> \o p

\* the output path after the media/ prefix has been applied
Prefixed(p) == IF StartsWithMedia(p) THEN p ELSE JoinMedia(p)

\* if inp == outp, on the output path as the caller gave it
SamePath(inp, outp) == inp = outp

\* no program other than a generator is running
PipeIdle == [pc |-> "idle"]

\* no ball is in flight
BallIdle == [pc |-> "idle"]

\* no star field exists
StarsIdle == [pc |-> "idle"]

\* no gradient accumulator exists
GradIdle == [pc |-> "idle"]

\* no colour conversion is under way
HsvIdle == [pc |-> "idle"]

\* the batch runner window is not open
BatchIdle == [pc |-> "idle"]

\* no generator window is followed over several clicks
WinIdle == [pc |-> "idle"]

\* the workflow builder is not open
WfIdle == [pc |-> "idle"]

SideIdle(S) ==
    /\ IF "pipeline" \in S THEN TRUE ELSE pipeline = PipeIdle
    /\ IF "ball" \in S THEN TRUE ELSE ball = BallIdle
    /\ IF "stars" \in S THEN TRUE ELSE stars = StarsIdle
    /\ IF "grad" \in S THEN TRUE ELSE grad = GradIdle
    /\ IF "hsv" \in S THEN TRUE ELSE hsv = HsvIdle
    /\ IF "batch" \in S THEN TRUE ELSE batch = BatchIdle
    /\ IF "win" \in S THEN TRUE ELSE win = WinIdle
    /\ IF "wf" \in S THEN TRUE ELSE wf = WfIdle

\* ---------------------------------------------------- pure functions
\* width, height and fps as handed to the frame loop and to ffmpeg
Width(g, c) ==
    IF g \in ThreadGens /\ c.preset # "Custom" THEN PRESETS(c.preset)[1] ELSE c.width

Height(g, c) ==
    IF g \in ThreadGens /\ c.preset # "Custom" THEN PRESETS(c.preset)[2] ELSE c.height

Fps(g, c) == IF g = "color_cycle_4k" THEN DefaultFps ELSE c.fps

\* int(math.ceil(total_seconds * fps)) with total_seconds = halves / 2
TargetFrames(halves, fps) == 0 - ((0 - (halves * fps)) \div 2)

FrameBytes(g, c) == Width(g, c) * Height(g, c) * 3

\* Repeat without the truncation of the last batch
RepeatUnclamped(dup, target, written) == dup

\* Repeat with a last batch of a single frame whatever the remainder
RepeatLastOne(dup, target, written) ==
    IF written + dup > target THEN 1 ELSE dup

\* min(dup, target_frames - frames_written): the last batch is truncated
Repeat(dup, target, written) == Min(dup, target - written)

\* logical_frames = math.ceil(target_frames / dup_factor)
LogicalFrames(target, dup) == 0 - ((0 - target) \div dup)

\* no frame has been computed yet
NoFrame == [k |-> 0, t |-> <<>>]

\* t = logical_idx / fps, as the fraction <<numerator, denominator>>
LogicalTime(idx, fps) == <<idx, fps>>

\* the frame recomputed for every copy that is written
FrameResimulated(f, copy) == [f EXCEPT !.k = @ + copy]

\* frame.tobytes() in the repeat loop: every copy is the frame of this pass
FrameWritten(f, copy) == f

\* a logical index that advances by the number of frames written
NextIdxByCopies(idx, copies) == idx + copies

\* logical_idx += 1 at the end of a pass
NextIdx(idx, copies) == idx + 1

\* the per-generator copies written for one computed frame
RepeatOf(g, c, target, written) ==
    IF g \in ThreadGens THEN 1 ELSE Repeat(c.dup, target, written)

\* ask_int / ask_float minimum checks of the prompting entry points
PromptRejects(g, c) ==
    /\ g # "abstract_flow"
    /\ (c.halves < 0 \/ c.width < 1 \/ c.height < 1 \/ c.fps < 1 \/ c.dup < 1)

\* the head of run() without its checks
InvalidSessionNever(c) == FALSE

\* the head of run() with >= in place of >
InvalidSessionOffByOne(c) ==
    c.width >= MaxWidth \/ c.height >= MaxHeight \/ c.halves <= 0

\* the checks at the head of run() and main()
InvalidSession(c) ==
    c.width > MaxWidth \/ c.height > MaxHeight \/ c.halves <= 0

\* the checks of start_generation
StartRejects(g, c) ==
    \/ c.halves <= 0
    \/ g = "gradient_cycle" /\ c.fps <= 0
    \/ c.preset = "Custom" /\ (c.width <= 0 \/ c.height <= 0)
    \/ g = "gradient_cycle" /\ c.preset = "Custom"
          /\ (c.width > MaxWidth \/ c.height > MaxHeight)

\* np.linspace(-1, 1, n) raises ValueError for n < 0
InitMustFault(g, c) ==
    g = "abstract_flow" /\ (c.width < 0 \/ c.height < 0)

\* np.zeros((height, width, 3)) raises ValueError for a negative dimension
SynthMustFault(g, c) ==
    g \in {"bouncing_ball", "starfield"} /\ (c.width < 0 \/ c.height < 0)

\* proc.stdin.write(frame.tobytes()) on the buffered pipe writer: n bytes are
\* kept in the buffer when they fit; otherwise the buffer is flushed to the
\* pipe, a frame larger than the buffer is written through, and a smaller one
\* is buffered.  A write to the pipe of a dead encoder raises BrokenPipeError.
BufWrite(b, n, alive) ==
    IF n <= BufSize - b THEN [ok |-> TRUE, buffered |-> b + n]
    ELSE IF b > 0 /\ ~alive THEN [ok |-> FALSE, buffered |-> b]
    ELSE IF n > BufSize THEN [ok |-> alive, buffered |-> 0]
    ELSE [ok |-> TRUE, buffered |-> n]

\* the FileNotFoundError handler without its sys.exit(1) / return
NotFoundExitMissing(g) == "init"

\* where main() and generate_video() go after reporting FileNotFoundError:
\* sys.exit(1), respectively return
NotFoundExit(g) == "done"

\* a finally clause that goes on to the status test without proc.wait()
AfterCloseNoWait == "status"

\* finally: proc.stdin.close() is followed by proc.wait()
AfterClose == "wait"

\* which generators keep a logical frame index
TimeDriven(g) == g \in {"abstract_flow", "circle_pulse", "spiral_black_hole"}

\* ------------------------------------------------------------- Init
Init ==
    /\ \E ge \in GenEntries, w \in Widths, h \in Heights, f \in FpsValues,
          d \in Dups, s \in Halves, p \in PresetNames :
          /\ gen = ge[1]
          /\ entry = ge[2]
          /\ cfg = [width |-> w, height |-> h,
                    fps |-> IF ge[1] = "color_cycle_4k" THEN DefaultFps ELSE f,
                    dup |-> IF ge[1] \in ThreadGens THEN 1 ELSE d,
                    halves |-> s,
                    preset |-> IF ge[1] \in ThreadGens THEN p ELSE "none"]
    /\ ffmpeg \in SpawnEnv
    /\ pc = "entry"
    /\ verdict = "none"
    /\ exc = "none"
    /\ target_frames = 0
    /\ frames_written = 0
    /\ logical_idx = 0
    /\ repeat = 0
    /\ i = 0
    /\ spawns = 0
    /\ cmd = <<>>
    /\ enc = "absent"
    /\ encStatus = -1
    /\ buffered = 0
    /\ closes = 0
    /\ awaited = FALSE
    /\ returncode = -1
    /\ writes = 0
    /\ synths = 0
    /\ faults = {}
    /\ frame = NoFrame
    /\ sent = <<>>
    /\ report = "none"
    /\ named = -1
    /\ exitCode = -1
    /\ button = "enabled"
    /\ SideIdle({})

\* no generator is running
GenIdle ==
    /\ gen = "abstract_flow"
    /\ entry = "cli"
    /\ cfg = [width |-> 2, height |-> 1, fps |-> 1, dup |-> 1,
              halves |-> 0, preset |-> "none"]
    /\ ffmpeg = "ok"
    /\ pc = "done"
    /\ verdict = "none"
    /\ exc = "none"
    /\ target_frames = 0
    /\ frames_written = 0
    /\ logical_idx = 0
    /\ repeat = 0
    /\ i = 0
    /\ spawns = 0
    /\ cmd = <<>>
    /\ enc = "absent"
    /\ encStatus = -1
    /\ buffered = 0
    /\ closes = 0
    /\ awaited = FALSE
    /\ returncode = -1
    /\ writes = 0
    /\ synths = 0
    /\ faults = {}
    /\ frame = NoFrame
    /\ sent = <<>>
    /\ report = "none"
    /\ named = -1
    /\ exitCode = -1
    /\ button = "enabled"

\* ------------------------------------------------- exception routing
\* an exception that leaves run(), main() or generate_video(): run() hands it
\* to its caller, main() dies with a traceback and exit status 1, the worker
\* thread dies and leaves the window as it is
Propagate(kind) ==
    /\ exc' = kind
    /\ IF Family(gen) = "run"
         THEN /\ pc' = "caller"
              /\ UNCHANGED outVars
         ELSE IF Family(gen) = "main"
         THEN /\ pc' = "done"
              /\ report' = "Traceback"
              /\ named' = -1
              /\ exitCode' = 1
              /\ UNCHANGED button
         ELSE /\ pc' = "done"
              /\ UNCHANGED outVars

\* an exception raised inside the try block of the frame loop: run() has only
\* a finally clause, main() and generate_video() catch Exception and report it
InLoopFault(kind) ==
    /\ pc' = "finally"
    /\ IF Family(gen) = "run"
         THEN /\ exc' = kind
              /\ UNCHANGED outVars
         ELSE /\ exc' = "none"
              /\ report' = "Error"
              /\ named' = -1
              /\ UNCHANGED <<exitCode, button>>

\* ------------------------------------------------------------- actions
\* cli() and the prompts of main(): ask_int / ask_float raise ValueError
CliPrompts ==
    /\ pc = "entry"
    /\ entry = "cli"
    /\ IF PromptRejects(gen, cfg)
         THEN /\ pc' = "done"
              /\ exc' = "ValueError"
              /\ faults' = faults \cup {"prompt"}
              /\ report' = "Error"
              /\ exitCode' = 1
              /\ UNCHANGED <<named, button>>
         ELSE /\ pc' = "validate"
              /\ UNCHANGED <<exc, faults, outVars>>
    /\ UNCHANGED <<inputVars, frameVars, verdict, loopVars, procVars, writes, synths>>

\* ui.go(): the entry fields are parsed and handed to run() unchecked
UiGo ==
    /\ pc = "entry"
    /\ entry = "gui"
    /\ gen \in RunGens
    /\ pc' = "validate"
    /\ UNCHANGED <<inputVars, frameVars, verdict, exc, loopVars, procVars, histVars, outVars>>

\* a start_generation that leaves the button as it was
ButtonLeftEnabled == "enabled"

\* button.state(["disabled"]) in start_generation, before thread.start()
ButtonWhileRendering == "disabled"

\* start_generation of gradient_cycle and color_cycle_4k
StartGeneration ==
    /\ pc = "entry"
    /\ gen \in ThreadGens
    /\ IF StartRejects(gen, cfg)
         THEN /\ pc' = "done"
              /\ verdict' = "rejected"
              /\ faults' = faults \cup {"invalid"}
              /\ report' = "Invalid"
              /\ UNCHANGED <<named, exitCode, button>>
         ELSE /\ pc' = "spawn"
              /\ verdict' = "accepted"
              /\ report' = "Rendering"
              /\ button' = ButtonWhileRendering
              /\ UNCHANGED <<faults, named, exitCode>>
    /\ UNCHANGED <<inputVars, frameVars, exc, loopVars, procVars, writes, synths>>

\* the validation at the head of run() and main()
Validate ==
    /\ pc = "validate"
    /\ IF InvalidSession(cfg)
         THEN /\ verdict' = "rejected"
              /\ faults' = faults \cup {"invalid"}
              /\ UNCHANGED target_frames
              /\ IF Family(gen) = "run"
                   THEN /\ pc' = "caller"
                        /\ exc' = "ValueError"
                        /\ UNCHANGED outVars
                   ELSE /\ pc' = "done"
                        /\ report' = "Invalid"
                        /\ exitCode' = 1
                        /\ UNCHANGED <<exc, named, button>>
         ELSE /\ verdict' = "accepted"
              /\ target_frames' = TargetFrames(cfg.halves, cfg.fps)
              /\ pc' = "spawn"
              /\ UNCHANGED <<exc, faults, outVars>>
    /\ UNCHANGED <<inputVars, frameVars, frames_written, logical_idx, repeat, i,
                   procVars, writes, synths>>

\* subprocess.Popen(cmd, stdin=subprocess.PIPE); generate_video computes its
\* total_frames just before
Spawn ==
    /\ pc = "spawn"
    /\ target_frames' = IF gen \in ThreadGens
                          THEN TargetFrames(cfg.halves, Fps(gen, cfg))
                          ELSE target_frames
    /\ IF ffmpeg = "ok"
         THEN /\ spawns' = spawns + 1
              /\ cmd' = <<Width(gen, cfg), Height(gen, cfg), Fps(gen, cfg)>>
              /\ enc' = "alive"
              /\ pc' = IF gen = "color_cycle_4k" THEN "loop" ELSE "init"
              /\ UNCHANGED <<exc, faults, outVars>>
         ELSE IF ffmpeg = "missing"
         THEN /\ faults' = faults \cup {"notfound"}
              /\ UNCHANGED <<spawns, cmd, enc>>
              /\ IF Family(gen) = "run"
                   THEN Propagate("FileNotFoundError")
                   ELSE /\ pc' = NotFoundExit(gen)
                        /\ report' = "NotFound"
                        /\ exitCode' = IF Family(gen) = "main" THEN 1 ELSE exitCode
                        /\ button' = "enabled"
                        /\ UNCHANGED <<exc, named>>
         ELSE /\ faults' = faults \cup {"oserror"}
              /\ UNCHANGED <<spawns, cmd, enc>>
              /\ Propagate("OSError")
    /\ UNCHANGED <<inputVars, frameVars, verdict, frames_written, logical_idx, repeat, i,
                   encStatus, buffered, closes, awaited, returncode, writes, synths>>

\* the statements between Popen and the try block: rng, coordinate grids,
\* layer / ball / star / accumulator state
InitField ==
    /\ pc = "init"
    /\ \/ /\ ~InitMustFault(gen, cfg)
          /\ pc' = "loop"
          /\ UNCHANGED <<exc, faults, outVars>>
       \/ /\ faults' = faults \cup {"init"}
          /\ Propagate("InitFault")
    /\ UNCHANGED <<inputVars, frameVars, verdict, loopVars, procVars, writes, synths>>

\* one pass of the loop body up to repeat = min(...): the frame is computed
Synthesize ==
    /\ pc = "loop"
    /\ frames_written < target_frames
    /\ synths - frames_written < MaxStall
    /\ \/ /\ ~SynthMustFault(gen, cfg)
          /\ synths' = synths + 1
          /\ repeat' = RepeatOf(gen, cfg, target_frames, frames_written)
          /\ i' = 0
          /\ pc' = "write"
          /\ frame' = [k |-> synths + 1,
                       t |-> IF TimeDriven(gen)
                               THEN LogicalTime(logical_idx, cfg.fps)
                               ELSE <<>>]
          /\ UNCHANGED <<exc, faults, outVars>>
       \/ /\ faults' = faults \cup {"synth"}
          /\ InLoopFault("SynthFault")
          /\ UNCHANGED <<synths, repeat, i, frame>>
    /\ UNCHANGED <<inputVars, sent, verdict, target_frames, frames_written, logical_idx,
                   procVars, writes>>

\* for _ in range(repeat): proc.stdin.write(frame.tobytes())
WriteFrame ==
    /\ pc = "write"
    /\ i < repeat
    /\ LET r == BufWrite(buffered, FrameBytes(gen, cfg), enc = "alive") IN
         /\ buffered' = r.buffered
         /\ IF r.ok
              THEN /\ writes' = writes + 1
                   /\ i' = i + 1
                   /\ sent' = Append(sent, FrameWritten(frame, i))
                   /\ UNCHANGED <<pc, exc, faults, outVars>>
              ELSE /\ faults' = faults \cup {"write"}
                   /\ InLoopFault("BrokenPipeError")
                   /\ UNCHANGED <<writes, i, sent>>
    /\ UNCHANGED <<inputVars, frame, verdict, target_frames, frames_written, logical_idx,
                   repeat, spawns, cmd, enc, encStatus, closes, awaited,
                   returncode, synths>>

\* frames_written += repeat; logical_idx += 1
EndRepeat ==
    /\ pc = "write"
    /\ i >= repeat
    /\ frames_written' = frames_written + repeat
    /\ logical_idx' = IF TimeDriven(gen) THEN NextIdx(logical_idx, repeat)
                                           ELSE logical_idx
    /\ pc' = "loop"
    /\ UNCHANGED <<inputVars, frameVars, verdict, exc, target_frames, repeat, i, procVars,
                   histVars, outVars>>

\* the loop condition is false
ExitLoop ==
    /\ pc = "loop"
    /\ ~(frames_written < target_frames)
    /\ pc' = "finally"
    /\ UNCHANGED <<inputVars, frameVars, verdict, exc, loopVars, procVars, histVars, outVars>>

\* finally: if proc.stdin: proc.stdin.close().  close() flushes the buffer;
\* when the flush hits the pipe of a dead encoder the descriptor is closed and
\* BrokenPipeError leaves the finally clause, skipping proc.wait()
CloseStdin ==
    /\ pc = "finally"
    /\ closes' = closes + 1
    /\ buffered' = 0
    /\ IF buffered > 0 /\ enc = "dead"
         THEN /\ faults' = faults \cup {"close"}
              /\ Propagate("BrokenPipeError")
         ELSE /\ pc' = AfterClose
              /\ UNCHANGED <<exc, faults, outVars>>
    /\ UNCHANGED <<inputVars, frameVars, verdict, loopVars, spawns, cmd, enc, encStatus,
                   awaited, returncode, writes, synths>>

\* finally: proc.wait(); a pending exception of run() is then re-raised
Wait ==
    /\ pc = "wait"
    /\ awaited' = TRUE
    /\ \E s \in 0 .. MaxStatus :
          /\ encStatus' = IF enc = "dead" THEN encStatus ELSE s
          /\ returncode' = IF enc = "dead" THEN encStatus ELSE s
    /\ enc' = "reaped"
    /\ pc' = IF exc # "none" THEN "caller" ELSE "status"
    /\ UNCHANGED <<inputVars, frameVars, verdict, exc, loopVars, spawns, cmd, buffered,
                   closes, histVars, outVars>>

\* the returncode test after the finally clause
CheckStatus ==
    /\ pc = "status"
    /\ IF Family(gen) = "run"
         THEN /\ pc' = "caller"
              /\ exc' = IF returncode # 0 THEN "RuntimeError" ELSE "none"
              /\ named' = IF returncode # 0 THEN returncode ELSE named
              /\ UNCHANGED <<report, exitCode, button>>
         ELSE /\ pc' = "done"
              /\ report' = IF returncode = 0 THEN "Done" ELSE "Exited"
              /\ named' = IF returncode = 0 THEN -1 ELSE returncode
              /\ exitCode' = IF Family(gen) = "main" THEN 0 ELSE exitCode
              /\ button' = IF Family(gen) = "thread" THEN "enabled" ELSE button
              /\ UNCHANGED exc
    /\ UNCHANGED <<inputVars, frameVars, verdict, loopVars, procVars, histVars>>

\* cli() and ui.go() after run() returned or raised
CallerReport ==
    /\ pc = "caller"
    /\ pc' = "done"
    /\ report' = IF exc = "none" THEN "Done" ELSE "Error"
    /\ exitCode' = IF entry = "cli" THEN (IF exc = "none" THEN 0 ELSE 1) ELSE exitCode
    /\ UNCHANGED <<inputVars, frameVars, verdict, exc, loopVars, procVars, histVars, named, button>>

\* the ffmpeg child exits on its own while its stdin is still open
EncoderDies ==
    /\ enc = "alive"
    /\ pc \in {"init", "loop", "write", "finally"}
    /\ enc' = "dead"
    /\ \E s \in 1 .. MaxStatus : encStatus' = s
    /\ UNCHANGED <<inputVars, frameVars, pc, verdict, exc, loopVars, spawns, cmd, buffered,
                   closes, awaited, returncode, histVars, outVars>>

Next ==
    \/ CliPrompts
    \/ UiGo
    \/ StartGeneration
    \/ Validate
    \/ Spawn
    \/ InitField
    \/ Synthesize
    \/ WriteFrame
    \/ EndRepeat
    \/ ExitLoop
    \/ CloseStdin
    \/ Wait
    \/ CheckStatus
    \/ CallerReport
    \/ EncoderDies

Spec == Init /\ [][Next]_vars

TypeOK ==
    /\ pc \in {"entry", "validate", "spawn", "init", "loop", "write", "finally",
               "wait", "status", "caller", "done"}
    /\ verdict \in {"none", "accepted", "rejected"}
    /\ enc \in {"absent", "alive", "dead", "reaped"}
    /\ spawns \in 0 .. 1
    /\ closes \in 0 .. 1
    /\ awaited \in BOOLEAN
    /\ returncode \in -1 .. MaxStatus
    /\ button \in {"enabled", "disabled"}
    /\ exitCode \in -1 .. 1

\* ------------------------------------------------------------- claims
Failure == {"Error", "Exited", "NotFound", "Invalid", "Traceback"}

C2_StdinClosedOnce ==
    /\ closes <= 1
    /\ (pc = "done" /\ spawns >= 1) => closes = 1

\* C3: a run that ends after the finally clause has closed stdin (the exit
\* paths of normal completion, failed write, synthesis fault and failed
\* closing flush) has awaited the child.
C3_ChildReaped ==
    (pc = "done" /\ closes >= 1) => awaited

\* C4: a configuration that validation rejects (width > 3840, height > 2160,
\* duration <= 0) never gets an encoder spawned and never a frame written.
C4_RejectBeforeSpawn ==
    /\ "invalid" \in faults => spawns = 0 /\ writes = 0 /\ enc = "absent"
    /\ (/\ gen \in DupGens \/ (gen = "gradient_cycle" /\ cfg.preset = "Custom")
        /\ (cfg.width > 3840 \/ cfg.height > 2160 \/ cfg.halves <= 0))
          => spawns = 0 /\ writes = 0
    /\ cfg.halves <= 0 => spawns = 0 /\ writes = 0

\* a run rejected for its width although ffmpeg could have been spawned
C4_Witness ==
    /\ pc = "done"
    /\ verdict = "rejected"
    /\ cfg.width = 7680
    /\ cfg.halves > 0
    /\ ffmpeg = "ok"
    /\ report \in Failure

\* C5: a configuration with fps <= 0 or dup < 1 never gets an encoder spawned,
\* whatever the entry path.
C5_RejectBadFpsDup ==
    (cfg.fps <= 0 \/ cfg.dup < 1) => spawns = 0

\* C6: the validation of run() / main() rejects exactly width > 3840,
\* height > 2160 and duration <= 0; it rejects width 7680 and duration 0 and
\* accepts 3840x2160, 1 s, 30 fps, dup 1.
C6_ValidatorEdges ==
    (gen \in DupGens /\ verdict # "none")
        => /\ verdict = "rejected"
                <=> (cfg.width > 3840 \/ cfg.height > 2160 \/ cfg.halves <= 0)
           /\ cfg.width = 7680 => verdict = "rejected"
           /\ cfg.halves = 0 => verdict = "rejected"
           /\ (cfg.width = 3840 /\ cfg.height = 2160 /\ cfg.halves = 2
                 /\ cfg.fps = 30 /\ cfg.dup = 1) => verdict = "accepted"

\* the configuration at the ceiling was accepted and its encoder spawned
C6_Witness ==
    /\ gen \in RunGens
    /\ cfg.width = 3840
    /\ cfg.height = 2160
    /\ cfg.halves = 2
    /\ cfg.fps = 30
    /\ cfg.dup = 1
    /\ verdict = "accepted"
    /\ cmd = <<3840, 2160, 30>>

\* C7: whenever an encoder is spawned its width is at most 3840 and its
\* height at most 2160, in every generator.
C7_CeilingAtSpawn ==
    spawns >= 1 => cmd[1] <= 3840 /\ cmd[2] <= 2160

\* C8: when the encoder exited with a non-zero status s (proc.returncode = s
\* after the wait) the run ends as a failure naming s, after stdin was closed
\* exactly once and the child was awaited; it never ends as a success.
C8_EncodingFailedSurfaced ==
    (pc = "done" /\ returncode > 0)
        => /\ report \in {"Error", "Exited"}
           /\ named = returncode
           /\ closes = 1
           /\ awaited

\* C9: a run in which a frame write or a synthesis step failed never ends
\* with the report Done and, from the command line, never with exit status 0.
C9_FaultReported ==
    (pc = "done" /\ faults \cap {"write", "synth"} # {})
        => /\ report # "Done"
           /\ entry = "cli" => exitCode # 0

\* C10: if ffmpeg cannot be located at the spawn, no encoder runs, no frame is
\* synthesized or written, and the run ends in a reported failure.
C10_EncoderUnavailable ==
    /\ "notfound" \in faults => spawns = 0 /\ synths = 0 /\ writes = 0
    /\ (ffmpeg = "missing" /\ verdict = "accepted" /\ pc = "done")
          => /\ "notfound" \in faults
             /\ report \in {"Error", "NotFound"}
             /\ entry = "cli" => exitCode = 1

\* an accepted configuration whose spawn found no ffmpeg, reported by main()
C10_Witness ==
    /\ gen \in MainGens
    /\ ffmpeg = "missing"
    /\ verdict = "accepted"
    /\ pc = "done"
    /\ report = "NotFound"
    /\ exitCode = 1
    /\ synths = 0

\* ------------------------------------------------ the frame schedule
\* The frame loop of a duplicating generator entered with a validated
\* configuration of 1 fps and T seconds, so that target_frames = T: the state
\* after validation, spawn and field initialisation.
SchedInit ==
    /\ \E g \in DupGens, T \in 1 .. MaxSchedT, d \in 1 .. MaxSchedDup :
          /\ gen = g
          /\ cfg = [width |-> 2, height |-> 1, fps |-> 1, dup |-> d,
                    halves |-> 2 * T, preset |-> "none"]
          /\ target_frames = TargetFrames(2 * T, 1)
    /\ entry = "cli"
    /\ ffmpeg = "ok"
    /\ pc = "loop"
    /\ verdict = "accepted"
    /\ exc = "none"
    /\ frames_written = 0
    /\ logical_idx = 0
    /\ repeat = 0
    /\ i = 0
    /\ spawns = 1
    /\ cmd = <<2, 1, 1>>
    /\ enc = "alive"
    /\ encStatus = -1
    /\ buffered = 0
    /\ closes = 0
    /\ awaited = FALSE
    /\ returncode = -1
    /\ writes = 0
    /\ synths = 0
    /\ faults = {}
    /\ frame = NoFrame
    /\ sent = <<>>
    /\ report = "none"
    /\ named = -1
    /\ exitCode = -1
    /\ button = "enabled"
    /\ SideIdle({})

SchedNext ==
    \/ Synthesize
    \/ WriteFrame
    \/ EndRepeat
    \/ ExitLoop

SchedSpec == SchedInit /\ [][SchedNext]_vars

\* C11: for T >= 1 and d >= 1 the k-th logical step starts at (k-1)*d frames
\* and writes d copies while k <= floor(T/d), then T mod d copies in one last
\* step; every repeat count is in 1..d, a complete run takes ceil(T/d) =
\* logical_frames steps, and d = 3, T = 10 gives the counts 3, 3, 3, 1.
C11_RepeatSchedule ==
    LET T == target_frames
        d == cfg.dup
    IN  /\ pc = "write"
            => /\ 1 <= repeat /\ repeat <= d
               /\ frames_written = d * (synths - 1)
               /\ repeat = IF synths <= T \div d THEN d ELSE T % d
        /\ (pc = "finally" /\ faults = {})
            => /\ synths = LogicalFrames(T, d)
               /\ frames_written = T
               /\ writes = T
        /\ (d = 3 /\ T = 10 /\ pc = "write")
            => <<synths, repeat>> \in {<<1, 3>>, <<2, 3>>, <<3, 3>>, <<4, 1>>}
        /\ (d = 3 /\ T = 10 /\ pc = "finally" /\ faults = {}) => synths = 4

\* the schedule 3, 3, 3, 1 has run to its end
C11_Witness ==
    /\ cfg.dup = 3
    /\ target_frames = 10
    /\ pc = "finally"
    /\ synths = 4
    /\ repeat = 1
    /\ writes = 10
    /\ faults = {}

\* ------------------------------------------------ pipeline_runner
\* run_pipeline(inp, outp, ..., make_hls) is about to be called
PipeInit ==
    /\ GenIdle
    /\ SideIdle({"pipeline"})
    /\ \E a \in PipePaths, b \in PipePaths, e \in BOOLEAN, h \in BOOLEAN,
          f \in {"ok", "missing"} :
          pipeline = [pc |-> "call", inp |-> a, outp |-> b, inpExists |-> e,
                      make_hls |-> h, ffmpeg |-> f, cmdIn |-> <<>>,
                      cmdOut |-> <<>>, runs |-> 0, err |-> "none"]

\* the checks of run_pipeline, the media/ prefix and os.makedirs
PipeChecks ==
    /\ pipeline.pc = "call"
    /\ IF ~pipeline.inpExists
         THEN pipeline' = [pipeline EXCEPT !.pc = "done",
                                           !.err = "FileNotFoundError"]
         ELSE IF SamePath(pipeline.inp, pipeline.outp)
         THEN pipeline' = [pipeline EXCEPT !.pc = "done", !.err = "ValueError"]
         ELSE \/ pipeline' = [pipeline EXCEPT !.pc = "encode",
                                 !.outp = Prefixed(pipeline.outp)]
              \/ pipeline' = [pipeline EXCEPT !.pc = "done",
                                 !.outp = Prefixed(pipeline.outp),
                                 !.err = "OSError"]
    /\ UNCHANGED <<genVars, ball, stars, grad, hsv, batch, win, wf>>

\* subprocess.run(["ffmpeg", "-y", "-i", inp, ..., outp], check=True)
PipeEncode ==
    /\ pipeline.pc = "encode"
    /\ IF pipeline.ffmpeg = "missing"
         THEN pipeline' = [pipeline EXCEPT !.pc = "done",
                                           !.err = "FileNotFoundError"]
         ELSE \E ok \in BOOLEAN :
                pipeline' = [pipeline EXCEPT
                    !.cmdIn = pipeline.inp,
                    !.cmdOut = pipeline.outp,
                    !.runs = @ + 1,
                    !.pc = IF ok /\ pipeline.make_hls THEN "hls" ELSE "done",
                    !.err = IF ok THEN "none" ELSE "CalledProcessError"]
    /\ UNCHANGED <<genVars, ball, stars, grad, hsv, batch, win, wf>>

\* the second ffmpeg run that packages the output as HLS
PipeHls ==
    /\ pipeline.pc = "hls"
    /\ \E ok \in BOOLEAN :
         pipeline' = [pipeline EXCEPT
             !.runs = @ + 1,
             !.pc = "done",
             !.err = IF ok THEN "none" ELSE "CalledProcessError"]
    /\ UNCHANGED <<genVars, ball, stars, grad, hsv, batch, win, wf>>

PipeNext ==
    \/ PipeChecks
    \/ PipeEncode
    \/ PipeHls

PipeSpec == PipeInit /\ [][PipeNext]_vars

\* C12: run_pipeline never starts the encoder with an output path equal to
\* its input path: whenever the output path handed to ffmpeg, after the media/
\* prefix has been applied, equals the input path, the call has failed with
\* an error and no subprocess has run.
C12_OutputDiffersFromInput ==
    /\ pipeline.runs >= 1 => pipeline.cmdOut # pipeline.cmdIn
    /\ (pipeline.pc = "done" /\ pipeline.inpExists
          /\ Prefixed(pipeline.outp) = pipeline.inp)
        => (pipeline.err # "none" /\ pipeline.runs = 0)

\* ------------------------------------------------ bouncing_ball physics
\* Positions are kept in half pixels, so that vx / fps is exact for the frame
\* rates 1 and 2; velocities are in pixels per second.
BallWidths == 3 .. MaxBallW
BallHeights == {4}
BallRadii == {-1, 1, 2}
BallFps == {1, 2}
BallVels == {0 - MaxBallV, -1, 0, 1, MaxBallV}
Colors == {"c1", "c2"}

Abs(v) == IF v < 0 THEN 0 - v ELSE v

\* the wall test with a bounce that loses half of the speed
BounceAxisLossy(pos, vel, lo, hi) ==
    IF pos < lo THEN [pos |-> lo, vel |-> Abs(vel) \div 2, hit |-> TRUE]
    ELSE IF pos > hi THEN [pos |-> hi, vel |-> 0 - (Abs(vel) \div 2), hit |-> TRUE]
    ELSE [pos |-> pos, vel |-> vel, hit |-> FALSE]

\* the wall test that turns the ball round without moving it back inside
BounceAxisNoClamp(pos, vel, lo, hi) ==
    IF pos < lo THEN [pos |-> pos, vel |-> Abs(vel), hit |-> TRUE]
    ELSE IF pos > hi THEN [pos |-> pos, vel |-> 0 - Abs(vel), hit |-> TRUE]
    ELSE [pos |-> pos, vel |-> vel, hit |-> FALSE]

\* one axis of the wall test: if pos < radius ... elif pos > extent - radius
BounceAxis(pos, vel, lo, hi) ==
    IF pos < lo THEN [pos |-> lo, vel |-> Abs(vel), hit |-> TRUE]
    ELSE IF pos > hi THEN [pos |-> hi, vel |-> 0 - Abs(vel), hit |-> TRUE]
    ELSE [pos |-> pos, vel |-> vel, hit |-> FALSE]

\* a colour drawn at each wall that was crossed
RecolorsPerWall(bx, by) == (IF bx THEN 1 ELSE 0) + (IF by THEN 1 ELSE 0)

\* if bounced: color = random_color(rng), the calls made in one step
Recolors(bx, by) == IF bx \/ by THEN 1 ELSE 0

\* x += vx / fps carries the ball past a wall by more than the frame is wide
Overshoot(x, vx, fps, radius, width) ==
    \/ x + (2 * vx) \div fps < 2 * radius - 2 * width
    \/ x + (2 * vx) \div fps > 2 * (width - radius) + 2 * width

\* The ball after the random draws of run(): rng.uniform(radius, width - radius)
\* needs radius <= width - radius, and the frame loop is entered with fps >= 1.
BallInit ==
    /\ GenIdle
    /\ SideIdle({"ball"})
    /\ \E w \in BallWidths, h \in BallHeights, r \in BallRadii, f \in BallFps,
          vx0 \in BallVels, vy0 \in BallVels, c \in Colors :
          /\ r <= w - r
          /\ r <= h - r
          /\ \E x0 \in r .. (w - r), y0 \in r .. (h - r) :
                ball = [pc |-> "loop", width |-> w, height |-> h, radius |-> r,
                        fps |-> f, x |-> 2 * x0, y |-> 2 * y0,
                        vx |-> vx0, vy |-> vy0, color |-> c,
                        crossed |-> 0, draws |-> 0,
                        vx0 |-> vx0, vy0 |-> vy0, over |-> FALSE]

\* the simulation part of one pass of the frame loop
BallStep ==
    /\ ball.pc = "loop"
    /\ LET bx == BounceAxis(ball.x + (2 * ball.vx) \div ball.fps, ball.vx,
                            2 * ball.radius, 2 * (ball.width - ball.radius))
           by == BounceAxis(ball.y + (2 * ball.vy) \div ball.fps, ball.vy,
                            2 * ball.radius, 2 * (ball.height - ball.radius))
           n == Recolors(bx.hit, by.hit)
       IN  \E cs \in [1 .. n -> Colors] :
             ball' = [ball EXCEPT
                 !.x = bx.pos, !.vx = bx.vel,
                 !.y = by.pos, !.vy = by.vel,
                 !.color = IF n = 0 THEN @ ELSE cs[n],
                 !.crossed = RecolorsPerWall(bx.hit, by.hit),
                 !.draws = n,
                 !.over = Overshoot(ball.x, ball.vx, ball.fps, ball.radius,
                                    ball.width)]
    /\ UNCHANGED <<genVars, pipeline, stars, grad, hsv, batch, win, wf>>

BallNext ==
    \/ BallStep

BallSpec == BallInit /\ [][BallNext]_vars

\* what C13 says of one axis: ipos is the position after integration
C13_Axis(ipos, vel, npos, nvel, lo, hi) ==
    /\ ipos < lo => (npos = lo /\ nvel > 0)
    /\ ipos > hi => (npos = hi /\ nvel < 0)
    /\ (lo <= ipos /\ ipos <= hi) => (npos = ipos /\ nvel = vel)

\* C13: in every step of the bouncing ball each axis is clamped on its own: a
\* position below radius becomes exactly radius with a positive velocity, one
\* above extent - radius becomes exactly extent - radius with a negative
\* velocity, anything else is untouched; the colour is redrawn exactly once in
\* a step in which at least one wall was crossed and never otherwise.
C13_ClampAndRecolor ==
    [][(ball.pc = "loop" /\ ball'.pc = "loop") =>
        LET ix == ball.x + (2 * ball.vx) \div ball.fps
            iy == ball.y + (2 * ball.vy) \div ball.fps
            lo == 2 * ball.radius
            hx == 2 * (ball.width - ball.radius)
            hy == 2 * (ball.height - ball.radius)
            out == ix < lo \/ ix > hx \/ iy < lo \/ iy > hy
        IN  /\ C13_Axis(ix, ball.vx, ball'.x, ball'.vx, lo, hx)
            /\ C13_Axis(iy, ball.vy, ball'.y, ball'.vy, lo, hy)
            /\ ball'.draws = IF out THEN 1 ELSE 0
            /\ ~out => ball'.color = ball.color]_vars

\* both walls were crossed in one step and the colour was drawn once
C13_Witness ==
    /\ ball.pc = "loop"
    /\ ball.crossed = 2
    /\ ball.draws = 1

\* ------------------------------------------------ frames and copies
\* C14: in the duplicating generators with fps >= 1 and dup >= 1 every copy written within one logical
\* step is the same frame, the simulation advances once per logical step and
\* not once per frame written, and a complete run takes ceil(target_frames /
\* dup) simulation steps.
C14_CopiesIdentical ==
    (gen \in DupGens /\ cfg.fps >= 1 /\ cfg.dup >= 1)
        => /\ Len(sent) = writes
           /\ \A m \in 1 .. Len(sent) :
                 /\ sent[m].k = ((m - 1) \div cfg.dup) + 1
                 /\ \A n \in 1 .. Len(sent) :
                       ((m - 1) \div cfg.dup = (n - 1) \div cfg.dup)
                           => sent[m] = sent[n]
           /\ pc = "write" => frame.k = synths
           /\ (closes >= 1 /\ faults = {})
                 => synths = LogicalFrames(target_frames, cfg.dup)

\* 15 frames came out of 5 simulation steps of 3 copies each
C14_Witness ==
    /\ gen \in {"bouncing_ball", "starfield", "spiral_black_hole"}
    /\ cfg.dup = 3
    /\ Len(sent) = 15
    /\ sent[13] = sent[15]
    /\ sent[15].k = 5
    /\ synths = 5
    /\ closes = 1
    /\ faults = {}

\* C15: in abstract_flow, circle_pulse and spiral_black_hole the k-th computed
\* frame (k from 0) is computed for the time k / fps: the logical index starts
\* at 0 and grows by exactly 1 per computed frame, whatever the number of
\* copies written.
C15_LogicalTime ==
    TimeDriven(gen)
        => /\ synths = 0 => logical_idx = 0
           /\ pc = "loop" => logical_idx = synths
           /\ pc = "write"
                 => /\ logical_idx = synths - 1
                    /\ frame.t = <<synths - 1, cfg.fps>>
           /\ \A m \in 1 .. Len(sent) : sent[m].t = <<sent[m].k - 1, cfg.fps>>

\* the third frame of a run with two copies per frame is computed for 2 / fps
C15_Witness ==
    /\ TimeDriven(gen)
    /\ cfg.dup = 2
    /\ pc = "write"
    /\ synths = 3
    /\ writes = 4
    /\ frame.t = <<2, cfg.fps>>

\* ------------------------------------------------ encoder lifecycle
\* C16: the encoder is spawned at most once per run and its life is ordered:
\* spawn, frame writes, close of stdin, wait, inspection of the exit status;
\* nothing is written after stdin was closed and the exit status is not read
\* before the wait has returned.
C16_Lifecycle ==
    /\ [](/\ spawns <= 1
          /\ writes > 0 => spawns = 1
          /\ closes >= 1 => spawns = 1
          /\ awaited => closes >= 1
          /\ pc = "status" => (awaited /\ returncode >= 0)
          /\ returncode >= 0 => awaited)
    /\ [][/\ closes >= 1 => (writes' = writes /\ sent' = sent)
          /\ spawns' > spawns => (writes = 0 /\ closes = 0 /\ ~awaited)
          /\ closes' > closes => ~awaited
          /\ (pc = "status" /\ pc' # "status") => awaited]_vars

\* a run of starfield or color_cycle_4k went through the whole life
C16_Witness ==
    /\ gen \in {"starfield", "color_cycle_4k"}
    /\ pc = "done"
    /\ spawns = 1
    /\ writes >= 2
    /\ closes = 1
    /\ awaited
    /\ returncode = 0
    /\ report = "Done"

\* ------------------------------------------------ starfield
\* The x array is float32: a position is a whole number of float32 steps (the
\* step stands for one pixel), while rng.uniform draws float64 values, SubSteps
\* of them per float32 step.  depth is kept in fifths, speed in pixels per
\* second.
StarCounts == {0, 1, 2}
StarWidths == {1, MaxStarW}
StarDepths == {1, 4}
StarYs == {0}
StarHues == {0, 1}
StarSizes == {1, 2}

\* round to the nearest multiple of f, ties to even: a float64 value stored
\* into a float32 array, and the float32 quotient speed / fps
RoundNearest(q, f) ==
    LET lo == q \div f
        r == q % f
    IN  IF 2 * r < f THEN lo
        ELSE IF 2 * r > f THEN lo + 1
        ELSE IF lo % 2 = 0 THEN lo ELSE lo + 1

\* 60.0 + 340.0 * depth
StarSpeed(d5) == 60 + (340 * d5) \div 5

\* 0.4 + 0.6 * depth, in fiftieths
StarVal(d5) == 20 + 6 * d5

\* a star is wrapped as soon as it has left the frame
WrapAtEdge(x) == x < 0

\* wrap = x < -3
Wrap(x) == x < -3

\* rng.uniform(0, 5): the least and the greatest float64 value of [0, 5), in
\* steps of 1 / SubSteps
RespawnDraws == {0, 5 * SubSteps - 1}

\* the stars after the draws that follow Popen
StarsInit ==
    /\ GenIdle
    /\ SideIdle({"stars"})
    /\ \E w \in StarWidths, n \in StarCounts :
         \E xs \in [1 .. n -> {0, w}], ys \in [1 .. n -> StarYs],
            ds \in [1 .. n -> StarDepths], hs \in [1 .. n -> StarHues],
            zs \in [1 .. n -> StarSizes] :
            stars = [pc |-> "loop", width |-> w, fps |-> DefaultFps, n_stars |-> n,
                     s |-> [k \in 1 .. n |->
                              [x |-> xs[k], y |-> ys[k], depth |-> ds[k],
                               speed |-> StarSpeed(ds[k]), hue |-> hs[k],
                               val |-> StarVal(ds[k]), size |-> zs[k],
                               fresh |-> FALSE]]]

\* x -= speed / fps for one star
StarMoved(st, fps) == st.x - RoundNearest(st.speed, fps)

\* what one star can be after a step: the draws are made for the wrapped
\* stars only (size=count)
StarAfter(st, width, fps) ==
    LET mx == StarMoved(st, fps)
    IN  IF Wrap(mx)
          THEN {[x |-> RoundNearest(SubSteps * width + u, SubSteps),
                 y |-> y, depth |-> d, speed |-> StarSpeed(d), hue |-> h,
                 val |-> StarVal(d), size |-> z, fresh |-> TRUE] :
                   u \in RespawnDraws, y \in StarYs, d \in StarDepths,
                   h \in StarHues, z \in StarSizes}
          ELSE {[st EXCEPT !.x = mx, !.fresh = FALSE]}

\* the arrays after a step, star by star
RECURSIVE StarsAfter(_, _, _, _)
StarsAfter(ss, k, width, fps) ==
    IF k = 0 THEN {<<>>}
    ELSE {Append(pre, st) : pre \in StarsAfter(ss, k - 1, width, fps),
                            st \in StarAfter(ss[k], width, fps)}

\* the simulation part of one pass of the frame loop
StarStep ==
    /\ stars.pc = "loop"
    /\ \E ns \in StarsAfter(stars.s, Len(stars.s), stars.width, stars.fps) :
          stars' = [stars EXCEPT !.s = ns]
    /\ UNCHANGED <<genVars, pipeline, ball, grad, hsv, batch, win, wf>>

StarsNext ==
    \/ StarStep

StarsSpec == StarsInit /\ [][StarsNext]_vars

\* C17 (as stated): after every step every star has -3 <= x < width + 5 and
\* a respawned star has x in [width, width + 5).
C17_StarBounds ==
    stars.pc = "loop"
        => \A k \in 1 .. Len(stars.s) :
              /\ -3 <= stars.s[k].x
              /\ stars.s[k].x < stars.width + 5
              /\ stars.s[k].fresh
                    => (stars.width <= stars.s[k].x
                        /\ stars.s[k].x < stars.width + 5)

\* C17 (amended): in each step every star whose x after the move is below -3
\* is respawned with x in [width, width + 5], both ends included, and with
\* fresh y, depth, speed = 60 + 340 * depth, hue, value and size; every other
\* star keeps everything but x; after every step -3 <= x <= width + 5, and the
\* number of stars is n_stars throughout.
C17_StarBoundsClosed ==
    /\ [](stars.pc = "loop"
            => /\ Len(stars.s) = stars.n_stars
               /\ \A k \in 1 .. Len(stars.s) :
                     /\ -3 <= stars.s[k].x
                     /\ stars.s[k].x <= stars.width + 5
                     /\ stars.s[k].speed = 60 + 68 * stars.s[k].depth)
    /\ [][(stars.pc = "loop" /\ stars'.pc = "loop")
            => \A k \in 1 .. Len(stars.s) :
                  LET st == stars.s[k]
                      nw == stars'.s[k]
                      mx == st.x - RoundNearest(st.speed, stars.fps)
                  IN  /\ mx < -3
                         => /\ nw.fresh
                            /\ stars.width <= nw.x
                            /\ nw.x <= stars.width + 5
                      /\ mx >= -3
                         => /\ ~nw.fresh
                            /\ nw.x = mx
                            /\ [nw EXCEPT !.x = 0, !.fresh = FALSE]
                                 = [st EXCEPT !.x = 0, !.fresh = FALSE]]_vars

\* a star was respawned while the other one went on, and one sits at the edge
C17_Witness ==
    /\ stars.pc = "loop"
    /\ Len(stars.s) = 2
    /\ stars.s[1].fresh
    /\ stars.s[1].x = stars.width + 5
    /\ ~stars.s[2].fresh
    /\ stars.s[2].x < stars.width

\* ------------------------------------------------ gradient_cycle accumulator
\* One sample (one channel of one pixel) of the uint16 accumulator and of the
\* gradient maps that are added to it.
GradFps == {0, 1, 2}
GradValues == {0, 100, 255}

\* segment_frames = max(1, int(segment_seconds * fps)), segment_seconds = 4.0
SegmentFrames(fps) == IF 4 * fps > 1 THEN 4 * fps ELSE 1

\* accumulator + current_grad.astype(np.uint16), uint16 arithmetic
Accumulate(acc, c) == (acc + c) % 65536

\* a sample that saturates at 255
EmitClamped(acc) == IF acc > 255 THEN 255 ELSE acc

\* (accumulator & 0xFF).astype(np.uint8)
Emit(acc) == acc % 256

\* generate_video after Popen: empty accumulator, first gradient drawn
GradInit ==
    /\ GenIdle
    /\ SideIdle({"grad"})
    /\ \E f \in GradFps, hv \in 0 .. MaxGradHalves, c \in GradValues :
          grad = [pc |-> "loop", fps |-> f,
                  total_frames |-> TargetFrames(hv, f),
                  segment_frames |-> SegmentFrames(f),
                  frame_idx |-> 0, current |-> c, accumulator |-> 0,
                  emitted |-> -1, adds |-> 0]

\* one pass of 'for frame_idx in range(total_frames)'; a failed write leaves
\* the loop through the except clause
GradFrame ==
    /\ grad.pc = "loop"
    /\ grad.frame_idx < grad.total_frames
    /\ LET seg_pos == grad.frame_idx % grad.segment_frames IN
       \E c \in GradValues, ok \in BOOLEAN :
          LET cur == IF seg_pos = 0 /\ grad.frame_idx # 0 THEN c ELSE grad.current
              add == (seg_pos = 0 /\ grad.frame_idx # 0) \/ grad.frame_idx = 0
              acc == IF add THEN Accumulate(grad.accumulator, cur)
                            ELSE grad.accumulator
          IN  grad' = [grad EXCEPT
                  !.current = cur,
                  !.accumulator = acc,
                  !.adds = IF add THEN @ + 1 ELSE @,
                  !.emitted = Emit(acc),
                  !.frame_idx = IF ok THEN @ + 1 ELSE @,
                  !.pc = IF ok THEN "loop" ELSE "done"]
    /\ UNCHANGED <<genVars, pipeline, ball, stars, hsv, batch, win, wf>>

\* range(total_frames) is exhausted
GradEnd ==
    /\ grad.pc = "loop"
    /\ grad.frame_idx >= grad.total_frames
    /\ grad' = [grad EXCEPT !.pc = "done"]
    /\ UNCHANGED <<genVars, pipeline, ball, stars, hsv, batch, win, wf>>

GradNext ==
    \/ GradFrame
    \/ GradEnd

GradSpec == GradInit /\ [][GradNext]_vars

SectorClipped(idx) == IF idx > 5 THEN 5 ELSE idx

\* i % 6
Sector(idx) == idx % 6

\* np.choose(index, [...])
Choose(idx, table) == table[idx + 1]

\* np.clip(rgb * 255.0, 0, 255).astype(np.uint8) of the value num / den
ToUint8(num, den) ==
    LET x == (255 * num) \div den
    IN  IF x < 0 THEN 0 ELSE IF x > 255 THEN 255 ELSE x

HsvToRgb(hn, sn, vn, n) ==
    LET idx == (6 * hn) \div n
        fn == 6 * hn - idx * n
        v == vn * n * n
        p == vn * (n - sn) * n
        q == vn * (n * n - fn * sn)
        t == vn * (n * n - (n - fn) * sn)
        r == Choose(Sector(idx), <<v, q, p, p, t, v>>)
        g == Choose(Sector(idx), <<t, v, v, q, p, p>>)
        b == Choose(Sector(idx), <<p, p, t, v, v, q>>)
    IN  <<ToUint8(r, n * n * n), ToUint8(g, n * n * n), ToUint8(b, n * n * n)>>

\* hsv_to_rgb is about to be called on one pixel
HsvInit ==
    /\ GenIdle
    /\ SideIdle({"hsv"})
    /\ \E hn \in 0 .. HsvDen, sn \in 0 .. HsvDen, vn \in 0 .. HsvDen :
          hsv = [pc |-> "call", h |-> hn, s |-> sn, v |-> vn, rgb |-> <<>>]

HsvConvert ==
    /\ hsv.pc = "call"
    /\ hsv' = [hsv EXCEPT !.pc = "done",
                          !.rgb = HsvToRgb(hsv.h, hsv.s, hsv.v, HsvDen)]
    /\ UNCHANGED <<genVars, pipeline, ball, stars, grad, batch, win, wf>>

HsvNext ==
    \/ HsvConvert

HsvSpec == HsvInit /\ [][HsvNext]_vars

\* floor(255 * a / b) for 0 <= a <= b
C19_Byte(a, b) == (255 * a) \div b

CanPutStrict(q, maxsize) == Len(q) < maxsize

\* Queue.put blocks while a queue with a positive maxsize holds maxsize items
CanPut(q, maxsize) == maxsize <= 0 \/ Len(q) < maxsize

BatchInit ==
    /\ GenIdle
    /\ SideIdle({"batch"})
    /\ \E f \in {"ok", "missing"} :
          batch = [pc |-> "open", ffmpeg |-> f, jobs |-> <<>>, q |-> <<>>,
                   runners |-> <<>>, polls |-> 0, ui |-> "idle",
                   status |-> "Idle", puts |-> 0, gets |-> 0]

OthersUnchanged ==
    UNCHANGED <<genVars, pipeline, ball, stars, grad, hsv, win, wf>>

\* self.q.put(msg) by a worker
Put(msg) ==
    [batch EXCEPT !.q = Append(@, [msg EXCEPT !.n = batch.puts + 1]),
                  !.puts = @ + 1]

\* add_files: one more file chosen in the dialog
AddFiles ==
    /\ batch.pc = "open"
    /\ batch.ui = "idle"
    /\ Len(batch.jobs) < MaxJobs
    /\ batch' = [batch EXCEPT !.jobs = Append(@, Len(@) + 1)]
    /\ OthersUnchanged

\* start: a new JobRunner over a copy of the job list, and a poll in 200 ms
Start ==
    /\ batch.pc = "open"
    /\ batch.ui = "idle"
    /\ Len(batch.runners) < MaxStarts
    /\ IF batch.jobs = <<>>
         THEN batch' = [batch EXCEPT !.status = "No jobs"]
         ELSE batch' = [batch EXCEPT
                 !.status = "Running...",
                 !.runners = Append(@, [jobs |-> batch.jobs, k |-> 1,
                                        pc |-> "top", lines |-> 0,
                                        proc |-> "none", log |-> <<>>]),
                 !.polls = @ + 1]
    /\ OthersUnchanged

\* JobRunner.run, head of the for loop: ffprobe_info and Popen of ffmpeg
RunnerPopen(r) ==
    /\ batch.runners[r].pc = "top"
    /\ batch.runners[r].k <= Len(batch.runners[r].jobs)
    /\ IF batch.ffmpeg = "ok"
         THEN batch' = [batch EXCEPT
                 !.runners[r].pc = "read",
                 !.runners[r].lines = 0,
                 !.runners[r].proc = "running",
                 !.runners[r].log = Append(@, <<"start", batch.runners[r].k>>)]
         ELSE batch' = [batch EXCEPT !.runners[r].pc = "dead"]
    /\ OthersUnchanged

\* the encoder writes an out_time_ms line and the worker reads it:
\* self.q.put(("progress", ...))
RunnerProgress(r) ==
    /\ batch.runners[r].pc = "read"
    /\ batch.runners[r].proc = "running"
    /\ batch.runners[r].lines < MaxProgress
    /\ CanPut(batch.q, QueueMaxsize)
    /\ batch' = [Put([kind |-> "progress", runner |-> r, n |-> 0,
                      job |-> batch.runners[r].jobs[batch.runners[r].k]])
                    EXCEPT !.runners[r].lines = @ + 1,
                           !.runners[r].log =
                               Append(@, <<"progress", batch.runners[r].k>>)]
    /\ OthersUnchanged

\* stderr=subprocess.PIPE is never read: an encoder that has filled that pipe
\* waits in its write while the worker waits in proc.stdout.readline()
EncoderBlocks(r) ==
    /\ batch.runners[r].pc = "read"
    /\ batch.runners[r].proc = "running"
    /\ batch' = [batch EXCEPT !.runners[r].proc = "blocked"]
    /\ OthersUnchanged

\* end of the output and proc.poll() is not None: the read loop ends
RunnerEof(r) ==
    /\ batch.runners[r].pc = "read"
    /\ batch.runners[r].proc = "running"
    /\ batch' = [batch EXCEPT
           !.runners[r].pc = "wait",
           !.runners[r].proc = "exited",
           !.runners[r].log = Append(@, <<"exit", batch.runners[r].k>>)]
    /\ OthersUnchanged

\* proc.wait(); self.q.put(("done", path, proc.returncode, elapsed))
RunnerDone(r) ==
    /\ batch.runners[r].pc = "wait"
    /\ CanPut(batch.q, QueueMaxsize)
    /\ \E code \in 0 .. 1 :
          batch' = [Put([kind |-> "done", runner |-> r, n |-> 0,
                         job |-> batch.runners[r].jobs[batch.runners[r].k],
                         code |-> code])
                      EXCEPT !.runners[r].pc = "top",
                             !.runners[r].proc = "reaped",
                             !.runners[r].log =
                                 Append(@, <<"done", batch.runners[r].k>>),
                             !.runners[r].k = @ + 1]
    /\ OthersUnchanged

\* after the last job: self.q.put(("all_done",))
RunnerAllDone(r) ==
    /\ batch.runners[r].pc = "top"
    /\ batch.runners[r].k > Len(batch.runners[r].jobs)
    /\ CanPut(batch.q, QueueMaxsize)
    /\ batch' = [Put([kind |-> "all_done", runner |-> r, n |-> 0])
                    EXCEPT !.runners[r].pc = "finished",
                           !.runners[r].log = Append(@, <<"all_done", 0>>)]
    /\ OthersUnchanged

\* an armed poll_queue callback starts to run on the UI thread
PollBegin ==
    /\ batch.pc = "open"
    /\ batch.ui = "idle"
    /\ batch.polls > 0
    /\ batch' = [batch EXCEPT !.ui = "polling", !.polls = @ - 1]
    /\ OthersUnchanged

\* item = self.q.get_nowait() and the handling of the item; queue.Empty ends
\* the call with a new root.after, all_done ends it without one
PollGet ==
    /\ batch.ui = "polling"
    /\ IF batch.q = <<>>
         THEN batch' = [batch EXCEPT !.ui = "idle", !.polls = @ + 1]
         ELSE LET item == Head(batch.q) IN
              batch' = [batch EXCEPT
                  !.q = Tail(@),
                  !.gets = @ + 1,
                  !.status = IF item.kind = "progress" THEN "Processing"
                             ELSE IF item.kind = "done" THEN "Finished"
                             ELSE "All jobs done.",
                  !.ui = IF item.kind = "all_done" THEN "idle" ELSE @]
    /\ OthersUnchanged

BatchNext ==
    \/ AddFiles
    \/ Start
    \/ \E r \in 1 .. Len(batch.runners) : RunnerPopen(r)
    \/ \E r \in 1 .. Len(batch.runners) : RunnerProgress(r)
    \/ \E r \in 1 .. Len(batch.runners) : EncoderBlocks(r)
    \/ \E r \in 1 .. Len(batch.runners) : RunnerEof(r)
    \/ \E r \in 1 .. Len(batch.runners) : RunnerDone(r)
    \/ \E r \in 1 .. Len(batch.runners) : RunnerAllDone(r)
    \/ PollBegin
    \/ PollGet

BatchSpec == BatchInit /\ [][BatchNext]_vars

\* C20: a put of the worker on the progress queue never blocks, however many
\* messages are unconsumed; messages leave the queue only in poll_queue on the
\* UI thread, whose reads never block, and they are consumed in the order in
\* which they were put.
C20_QueueFifo ==
    /\ [](batch.pc = "open"
            => /\ batch.puts = batch.gets + Len(batch.q)
               /\ \A m \in 1 .. Len(batch.q) : batch.q[m].n = batch.gets + m
               /\ \A r \in 1 .. Len(batch.runners) :
                     batch.runners[r].pc \in {"top", "read", "wait"}
                        => CanPut(batch.q, QueueMaxsize))
    /\ [][batch.pc = "open"
            => /\ batch'.q # batch.q
                    => \/ /\ batch.ui = "polling"
                          /\ batch.q # <<>>
                          /\ batch'.q = Tail(batch.q)
                          /\ Head(batch.q).n = batch.gets + 1
                          /\ batch'.gets = batch.gets + 1
                       \/ /\ Len(batch'.q) = Len(batch.q) + 1
                          /\ batch'.gets = batch.gets
                          /\ batch'.ui = batch.ui
               /\ (batch.ui = "polling" /\ batch.q = <<>> /\ batch'.ui # batch.ui)
                    => (batch'.ui = "idle" /\ batch'.polls = batch.polls + 1)]_vars

\* three messages wait in the queue while a worker is about to put a fourth,
\* and the UI thread has taken the first message
C20_Witness ==
    /\ batch.pc = "open"
    /\ Len(batch.q) >= 3
    /\ batch.gets >= 1
    /\ \E r \in 1 .. Len(batch.runners) : batch.runners[r].pc = "wait"

\* how often the entry e stands in the log L
C21_Count(L, e) == Cardinality({a \in DOMAIN L : L[a] = e})

\* C21: within one JobRunner the jobs are taken in list order, one at a time:
\* the encoder of the next job is not started before the encoder of the job
\* before it has exited; each job produces exactly one done message, after
\* all of its progress messages, and a single all_done message is the last
\* message the runner produces.
C21_JobsInOrder ==
    batch.pc = "open"
        => \A r \in 1 .. Len(batch.runners) :
              LET L == batch.runners[r].log
                  n == Len(batch.runners[r].jobs)
              IN  /\ \A a \in DOMAIN L, b \in DOMAIN L :
                        (a < b /\ L[b][1] # "all_done")
                           => /\ L[a][1] # "all_done"
                              /\ L[a][2] <= L[b][2]
                              /\ (L[a][1] = "start" /\ L[b][1] = "start")
                                   => \E c \in a .. b : L[c] = <<"exit", L[a][2]>>
                              /\ L[a][1] = "done"
                                   => L[b] # <<"progress", L[a][2]>>
                  /\ \A j \in 1 .. n : C21_Count(L, <<"done", j>>) <= 1
                  /\ C21_Count(L, <<"all_done", 0>>) <= 1
                  /\ batch.runners[r].pc \in {"finished", "dead"}
                        => /\ \A j \in 1 .. n : C21_Count(L, <<"done", j>>) = 1
                           /\ L # <<>>
                           /\ L[Len(L)] = <<"all_done", 0>>

\* the JobRunner thread r has not ended
Alive(r) == batch.runners[r].pc \in {"top", "read", "wait"}

\* the encoder of runner r is a live process
Encoding(r) == batch.runners[r].proc \in {"running", "blocked"}

\* C27: whatever the sequence of Add videos and Start clicks, at most one
\* JobRunner is alive at a time, no two encoders run at the same time, and no
\* encoder writes an output path that another running encoder is writing.
C27_OneRunner ==
    batch.pc = "open"
        => \A r \in 1 .. Len(batch.runners), t \in 1 .. Len(batch.runners) :
              r # t
                => /\ ~(Alive(r) /\ Alive(t))
                   /\ ~(Encoding(r) /\ Encoding(t))
                   /\ ~(/\ Encoding(r)
                        /\ Encoding(t)
                        /\ batch.runners[r].jobs[batch.runners[r].k]
                             = batch.runners[t].jobs[batch.runners[t].k])

\* the JobRunner thread r will take no further step
Stopped(r) ==
    \/ batch.runners[r].pc \in {"finished", "dead"}
    \/ batch.runners[r].proc = "blocked"

\* C28: after Start with a non-empty job list the all_done message is put, the
\* window shows 'All jobs done.' and the polling stops, whatever the encoders
\* write to stdout and stderr, whatever their exit status, and also when an
\* encoder cannot be started: once nothing is left to happen, that is how the
\* program has ended.
C28_AllDone ==
    (/\ batch.pc = "open"
     /\ batch.runners # <<>>
     /\ \A r \in 1 .. Len(batch.runners) : Stopped(r)
     /\ batch.q = <<>>
     /\ batch.ui = "idle")
        => /\ \A r \in 1 .. Len(batch.runners) :
                 /\ batch.runners[r].log # <<>>
                 /\ batch.runners[r].log[Len(batch.runners[r].log)]
                      = <<"all_done", 0>>
           /\ batch.status = "All jobs done."
           /\ batch.polls = 0

\* ------------------------------------------------ termination of the frame loop
\* C24: for every configuration that run() accepts the frame loop ends:
\* frames_written is strictly larger after every pass of the loop, until it
\* reaches target_frames; then stdin is closed and the run ends.
C24_LoopProgress ==
    [][(verdict = "accepted" /\ pc = "write" /\ pc' = "loop")
          => /\ frames_written' > frames_written
             /\ frames_written' <= target_frames]_vars

\* ------------------------------------------------ the Generate button
\* C25: in gradient_cycle and color_cycle_4k every generation started by
\* start_generation ends with the Generate button enabled again, whatever the
\* outcome: success, encoder not found, another failure to spawn, an error
\* while writing or synthesising, a failure while closing stdin, a non-zero
\* exit status.
C25_ButtonReenabled ==
    (gen \in ThreadGens /\ verdict = "accepted" /\ pc = "done")
        => button = "enabled"

\* ------------------------------------------------ bouncing_ball, whole runs
\* C22: the bounces of the bouncing ball are elastic: after every physics step
\* the magnitudes of vx and vy are the ones the ball was launched with, a
\* bounce changes the sign of a velocity component and nothing else.
C22_ElasticBounce ==
    ball.pc = "loop"
        => /\ Abs(ball.vx) = Abs(ball.vx0)
           /\ Abs(ball.vy) = Abs(ball.vy0)

\* the ball has bounced off a wall and now moves against its launch direction
C22_Witness ==
    /\ ball.pc = "loop"
    /\ ball.crossed >= 1
    /\ ball.vx0 # 0
    /\ ball.vx = 0 - ball.vx0

\* C29: with width >= 2 * radius and height >= 2 * radius the centre of the
\* ball is inside [radius, width - radius] x [radius, height - radius] after
\* every physics step, for every speed and frame rate, also when one step
\* carries the ball past a wall by more than the frame is wide.
C29_BallInside ==
    (/\ ball.pc = "loop"
     /\ ball.width >= 2 * ball.radius
     /\ ball.height >= 2 * ball.radius)
        => /\ 2 * ball.radius <= ball.x
           /\ ball.x <= 2 * (ball.width - ball.radius)
           /\ 2 * ball.radius <= ball.y
           /\ ball.y <= 2 * (ball.height - ball.radius)

\* a step that went past a wall by more than the frame width was clamped
C29_Witness ==
    /\ ball.pc = "loop"
    /\ ball.over
    /\ ball.crossed >= 1
    /\ ball.width >= 2 * ball.radius
    /\ ball.x \in {2 * ball.radius, 2 * (ball.width - ball.radius)}

\* ------------------------------------------------ the window over several clicks
\* gradient_cycle and color_cycle_4k: the Generate button, start_generation
\* on the UI thread and the generate_video workers it starts.

WinInit ==
    /\ GenIdle
    /\ SideIdle({"win"})
    /\ \E g \in ThreadGens :
          win = [pc |-> "open", gen |-> g, button |-> "enabled",
                 status |-> "Ready", workers |-> <<>>, ignored |-> 0]

WinOthersUnchanged ==
    UNCHANGED <<genVars, pipeline, ball, stars, grad, hsv, batch, wf>>

\* a click on the enabled button runs start_generation: the fields are
\* checked, and with valid fields the button is disabled and a worker started
Click ==
    /\ win.pc = "open"
    /\ win.button = "enabled"
    /\ Len(win.workers) < MaxWorkers
    /\ \E valid \in BOOLEAN :
          IF valid
            THEN win' = [win EXCEPT
                    !.status = "Rendering",
                    !.button = ButtonWhileRendering,
                    !.workers = Append(@, [pc |-> "spawn", enc |-> "none"])]
            ELSE win' = [win EXCEPT !.status = "Invalid"]
    /\ WinOthersUnchanged

\* a click on the disabled button: the widget does not call its command
ClickDisabled ==
    /\ win.pc = "open"
    /\ win.button = "disabled"
    /\ win.ignored < MaxIgnored
    /\ win' = [win EXCEPT !.ignored = @ + 1]
    /\ WinOthersUnchanged

\* generate_video: Popen, with its except FileNotFoundError
WorkerSpawn(w) ==
    /\ win.workers[w].pc = "spawn"
    /\ \E env \in SpawnEnv :
          IF env = "ok"
            THEN win' = [win EXCEPT
                    !.workers[w].enc = "alive",
                    !.workers[w].pc =
                        IF win.gen = "color_cycle_4k" THEN "loop" ELSE "init"]
            ELSE IF env = "missing"
            THEN win' = [win EXCEPT
                    !.status = "NotFound",
                    !.button = "enabled",
                    !.workers[w].pc = "ended"]
            ELSE win' = [win EXCEPT !.workers[w].pc = "died"]
    /\ WinOthersUnchanged

\* gradient_cycle: the generator and the accumulator are made outside the try
WorkerInit(w) ==
    /\ win.workers[w].pc = "init"
    /\ \E ok \in BOOLEAN :
          win' = [win EXCEPT !.workers[w].pc = IF ok THEN "loop" ELSE "died"]
    /\ WinOthersUnchanged

\* the encoder ends on its own while the worker is still writing
WorkerEncoderDies(w) ==
    /\ win.workers[w].pc = "loop"
    /\ win.workers[w].enc = "alive"
    /\ win' = [win EXCEPT !.workers[w].enc = "exited"]
    /\ WinOthersUnchanged

\* the frame loop with its except Exception: it ends in the finally clause
WorkerLoop(w) ==
    /\ win.workers[w].pc = "loop"
    /\ \E failed \in BOOLEAN :
          /\ (win.workers[w].enc = "exited") => failed
          /\ win' = [win EXCEPT
                 !.status = IF failed THEN "Error" ELSE @,
                 !.workers[w].pc = "close"]
    /\ WinOthersUnchanged

\* finally: proc.stdin.close(), which raises when the pipe is broken
WorkerClose(w) ==
    /\ win.workers[w].pc = "close"
    /\ IF win.workers[w].enc = "exited"
         THEN \E raised \in BOOLEAN :
                win' = [win EXCEPT
                    !.workers[w].pc = IF raised THEN "died" ELSE "wait"]
         ELSE win' = [win EXCEPT !.workers[w].pc = "wait",
                                 !.workers[w].enc = "exited"]
    /\ WinOthersUnchanged

\* finally: proc.wait()
WorkerWait(w) ==
    /\ win.workers[w].pc = "wait"
    /\ win' = [win EXCEPT !.workers[w].pc = "status",
                          !.workers[w].enc = "reaped"]
    /\ WinOthersUnchanged

\* the status line for the return code and button.state(["!disabled"])
WorkerStatus(w) ==
    /\ win.workers[w].pc = "status"
    /\ \E code \in 0 .. 1 :
          win' = [win EXCEPT
              !.status = IF code = 0 THEN "Done" ELSE "Failed",
              !.button = "enabled",
              !.workers[w].pc = "ended"]
    /\ WinOthersUnchanged

WinNext ==
    \/ Click
    \/ ClickDisabled
    \/ \E w \in 1 .. Len(win.workers) : WorkerSpawn(w)
    \/ \E w \in 1 .. Len(win.workers) : WorkerInit(w)
    \/ \E w \in 1 .. Len(win.workers) : WorkerEncoderDies(w)
    \/ \E w \in 1 .. Len(win.workers) : WorkerLoop(w)
    \/ \E w \in 1 .. Len(win.workers) : WorkerClose(w)
    \/ \E w \in 1 .. Len(win.workers) : WorkerWait(w)
    \/ \E w \in 1 .. Len(win.workers) : WorkerStatus(w)

WinSpec == WinInit /\ [][WinNext]_vars

\* the worker w is inside generate_video
Working(w) == win.workers[w].pc \notin {"ended", "died"}

\* C26: at most one generate_video worker and at most one encoder exist at
\* any time: the button is disabled before the worker is started, and a
\* further worker is started only after the one before it has enabled the
\* button again.
C26_OneWorker ==
    /\ [](win.pc = "open"
            => /\ \A a \in 1 .. Len(win.workers), b \in 1 .. Len(win.workers) :
                     a # b
                       => /\ ~(Working(a) /\ Working(b))
                          /\ ~(/\ win.workers[a].enc = "alive"
                               /\ win.workers[b].enc = "alive")
               /\ win.button = "enabled"
                     => \A a \in 1 .. Len(win.workers) : ~Working(a))
    /\ [][(win.pc = "open" /\ Len(win'.workers) > Len(win.workers))
            => /\ win.button = "enabled"
               /\ win'.button = "disabled"
               /\ \A a \in 1 .. Len(win.workers) : ~Working(a)]_vars

\* a second worker encodes after the first has ended, and a click in
\* between was not answered
C26_Witness ==
    /\ win.pc = "open"
    /\ Len(win.workers) >= 2
    /\ win.workers[1].pc = "ended"
    /\ win.workers[2].enc = "alive"
    /\ win.ignored >= 1

\* ------------------------------------------------ workflow_builder
\* The node canvas: App.nodes, the run-order listbox with its selection and
\* the connector lines.  Indices are those of Python plus one; sel = 0 is an
\* empty curselection().
WfTools == {"Circle Pulse", "Starfield"}
DragSteps == {30}

\* Node.center
Center(n) == <<n.x + NodeW \div 2, n.y + NodeH \div 2>>

\* listbox.delete(idx)
ListDelete(L, a) == SubSeq(L, 1, a - 1) \o SubSeq(L, a + 1, Len(L))

\* listbox.insert(idx, label): an index past the end appends
ListInsert(L, a, e) ==
    LET b == IF a > Len(L) THEN Len(L) + 1 ELSE a
    IN  SubSeq(L, 1, b - 1) \o <<e>> \o SubSeq(L, b, Len(L))

\* a move that leaves self.nodes as it was
SwapNone(ns, a, b) == ns

\* self.nodes[a], self.nodes[b] = self.nodes[b], self.nodes[a]
Swap(ns, a, b) == [ns EXCEPT ![a] = ns[b], ![b] = ns[a]]

\* redraw_lines: every line is deleted, then one line per neighbouring pair
RedrawLines(ns) ==
    [a \in 1 .. (Len(ns) - 1) |->
        [from |-> Center(ns[a]), to |-> Center(ns[a + 1])]]

WfInit ==
    /\ GenIdle
    /\ SideIdle({"wf"})
    /\ wf = [pc |-> "open", nodes |-> <<>>, listbox |-> <<>>, sel |-> 0,
             lines |-> <<>>, drags |-> 0, last |-> "init", moved |-> FALSE]

WfOthersUnchanged ==
    UNCHANGED <<genVars, pipeline, ball, stars, grad, hsv, batch, win>>

\* add_node
add_node ==
    /\ wf.pc = "open"
    /\ Len(wf.nodes) < MaxNodes
    /\ \E label \in WfTools :
          LET node == [id |-> Len(wf.nodes) + 1, label |-> label,
                       x |-> NodeX0 + NodeStep * Len(wf.nodes),
                       y |-> NodeX0 + NodeStep * Len(wf.nodes)]
              ns == Append(wf.nodes, node)
          IN  wf' = [wf EXCEPT
                  !.nodes = ns,
                  !.listbox = ListInsert(@, Len(@) + 1, label),
                  !.lines = RedrawLines(ns),
                  !.last = "add",
                  !.moved = FALSE]
    /\ WfOthersUnchanged

\* the user picks an entry of the run-order list
Select ==
    /\ wf.pc = "open"
    /\ \E a \in 1 .. Len(wf.listbox) :
          /\ a # wf.sel
          /\ wf' = [wf EXCEPT !.sel = a, !.last = "select", !.moved = FALSE]
    /\ WfOthersUnchanged

\* move_up
move_up ==
    /\ wf.pc = "open"
    /\ IF wf.sel = 0 \/ wf.sel = 1
         THEN wf' = [wf EXCEPT !.last = "up", !.moved = FALSE]
         ELSE LET idx == wf.sel
                  ns == Swap(wf.nodes, idx - 1, idx)
              IN  wf' = [wf EXCEPT
                      !.listbox = ListInsert(ListDelete(@, idx), idx - 1,
                                             wf.nodes[idx].label),
                      !.nodes = ns,
                      !.sel = idx - 1,
                      !.lines = RedrawLines(ns),
                      !.last = "up",
                      !.moved = TRUE]
    /\ WfOthersUnchanged

\* move_down
move_down ==
    /\ wf.pc = "open"
    /\ IF wf.sel = 0 \/ wf.sel = Len(wf.listbox)
         THEN wf' = [wf EXCEPT !.last = "down", !.moved = FALSE]
         ELSE LET idx == wf.sel
                  ns == Swap(wf.nodes, idx, idx + 1)
              IN  wf' = [wf EXCEPT
                      !.listbox = ListInsert(ListDelete(@, idx), idx + 1,
                                             wf.nodes[idx].label),
                      !.nodes = ns,
                      !.sel = idx + 1,
                      !.lines = RedrawLines(ns),
                      !.last = "down",
                      !.moved = TRUE]
    /\ WfOthersUnchanged

\* Node.drag: the rectangle and its text are moved, the lines are not redrawn
drag ==
    /\ wf.pc = "open"
    /\ wf.drags < MaxDrags
    /\ \E a \in 1 .. Len(wf.nodes), dx \in DragSteps, dy \in DragSteps :
          wf' = [wf EXCEPT
              !.nodes[a].x = @ + dx,
              !.nodes[a].y = @ + dy,
              !.drags = @ + 1,
              !.last = "drag",
              !.moved = FALSE]
    /\ WfOthersUnchanged

WfNext ==
    \/ add_node
    \/ Select
    \/ move_up
    \/ move_down
    \/ drag

WfSpec == WfInit /\ [][WfNext]_vars

\* the identities of the nodes of a list
NodeIds(ns) == {ns[a].id : a \in DOMAIN ns}

\* C23: after any sequence of add_node, move_up and move_down the run-order
\* listbox and the nodes list have the same length and entry i of the
\* listbox is the label of nodes[i]; there are exactly max(0, n - 1)
\* connector lines and line i joins the centres of nodes[i] and nodes[i+1];
\* a move only permutes the nodes.
C23_ListsAgree ==
    /\ [](wf.pc = "open"
            => /\ Len(wf.listbox) = Len(wf.nodes)
               /\ \A a \in DOMAIN wf.nodes : wf.listbox[a] = wf.nodes[a].label
               /\ wf.drags = 0
                    => /\ Len(wf.lines)
                            = IF Len(wf.nodes) = 0 THEN 0 ELSE Len(wf.nodes) - 1
                       /\ \A a \in DOMAIN wf.lines :
                             /\ wf.lines[a].from = Center(wf.nodes[a])
                             /\ wf.lines[a].to = Center(wf.nodes[a + 1]))
    /\ [][(wf.pc = "open" /\ wf'.last \in {"up", "down"})
            => /\ Len(wf'.nodes) = Len(wf.nodes)
               /\ NodeIds(wf'.nodes) = NodeIds(wf.nodes)
               /\ Cardinality(NodeIds(wf'.nodes)) = Len(wf'.nodes)
               /\ \A a \in DOMAIN wf.nodes, b \in DOMAIN wf'.nodes :
                     wf.nodes[a].id = wf'.nodes[b].id
                        => wf.nodes[a] = wf'.nodes[b]]_vars

\* three nodes with different labels, the last move took the node created
\* first away from the head of the list, and no node was dragged
C23_Witness ==
    /\ wf.pc = "open"
    /\ wf.last \in {"up", "down"}
    /\ wf.moved
    /\ wf.drags = 0
    /\ Len(wf.nodes) = 3
    /\ wf.nodes[1].id # 1
    /\ wf.nodes[1].label # wf.nodes[2].label
====
